---- MODULE Spec2Model ----
(***************************************************************************)
(* Model of falco_rule_evaluator.py: Tree.construct_tree (a shunting-yard  *)
(* construction of an expression tree from infix tokens) and Tree.evaluate *)
(* (recursive evaluation of that tree against one event).                  *)
(*                                                                         *)
(* Encoding.  A Python operand token is the tuple (field, value): here the *)
(* 2-tuple <<field, value>>.  A symbolic token is a Python string: here a  *)
(* 1-tuple <<"and">>, <<"or">>, <<"(">>, <<")">>, so that a token can be   *)
(* compared with any other token.  An optional value (None or an object)   *)
(* is a sequence of length 0 or 1.  An event (a dict) is a function from   *)
(* the set of its keys.                                                    *)
(***************************************************************************)
EXTENDS Integers, Sequences, FiniteSets, TLC

VARIABLES tokens, pos, operator_stack, operand_stack, pc, root, raisedAt,
          fes, result, firstFes, firstResult, interleaved

vars == <<tokens, pos, operator_stack, operand_stack, pc, root, raisedAt,
          fes, result, firstFes, firstResult, interleaved>>

----------------------------------------------------------------------------
(* Bounds of the model *)

\* longest arbitrary (possibly malformed) token sequence given to construct_tree
MaxLen == 3

\* longest syntactically valid token sequence given to construct_tree
MaxValidLen == 7

----------------------------------------------------------------------------
(* Tokens *)

AND == <<"and">>
OR == <<"or">>
LPAREN == <<"(">>
RPAREN == <<")">>

Symbols == {AND, OR, LPAREN, RPAREN}

\* the operands of the sample rule of main()
Operands ==
    { <<"evt.type", "blah">>, <<"evt.arg.flags", "O_APPEND">>,
      <<"evt.arg.flags", "O_TRUNC">>, <<"fd.filename", ".bashrc">> }

Tokens == Operands \cup Symbols

\* the token list main() builds from its sample rule
SampleTokens ==
    << LPAREN, <<"evt.type", "blah">>, OR, <<"evt.arg.flags", "O_APPEND">>, RPAREN,
       AND,
       LPAREN, <<"evt.arg.flags", "O_TRUNC">>, OR, <<"fd.filename", ".bashrc">>, RPAREN >>

\* the events of main()'s fake_event_sequences, flattened, and the empty event
Events ==
    { [k \in {"evt.arg.flags", "fd.filename"} |->
          IF k = "evt.arg.flags" THEN "O_TRUNC" ELSE ".bashrc"],
      [k \in {"evt.arg.flags", "evt.type", "evt.is_open"} |->
          IF k = "evt.arg.flags" THEN "O_APPEND"
          ELSE IF k = "evt.type" THEN "openat" ELSE "true"],
      [k \in {"evt.type"} |-> "hello"],
      [k \in {"evt.type", "evt.arg.flags"} |->
          IF k = "evt.type" THEN "hello" ELSE "O_APPEND"],
      [k \in {"evt.type"} |-> "blah"],
      [k \in {"evt.type", "evt.arg.flags"} |->
          IF k = "evt.type" THEN "blah" ELSE "O_TRUNC"],
      [k \in {} |-> ""] }

----------------------------------------------------------------------------
(* Node *)

None == <<>>

Some(x) == <<x>>

Node(data, left, right) == [data |-> data, left |-> left, right |-> right]

leaf_check(node) == node.left = None /\ node.right = None

isinstance_tuple(token) == Len(token) = 2

\* variant of eval_to_bool that only looks for the key
eval_to_bool_key_only(data, event) == data[1] \in DOMAIN event

eval_to_bool(data, event) ==
    data[1] \in DOMAIN event /\ data[2] = event[data[1]]

----------------------------------------------------------------------------
(* Tree.construct_tree *)

Top(stack) == stack[Len(stack)]

Pop(stack) == SubSeq(stack, 1, Len(stack) - 1)

\* the two stacks of one call, and whether a pop from an empty list raised
Stacks(ops, opnds, raised) ==
    [operator_stack |-> ops, operand_stack |-> opnds, raised |-> raised]

\* variant of Reduce in which a pop from an empty list gives nothing instead of
\* raising: the operator is dropped and the operand stack is left as it is
ReduceLenient(st) ==
    IF Len(st.operand_stack) < 2
    THEN Stacks(Pop(st.operator_stack), st.operand_stack, FALSE)
    ELSE Stacks(Pop(st.operator_stack),
                Append(Pop(Pop(st.operand_stack)),
                       Node(Top(st.operator_stack),
                            Some(Top(Pop(st.operand_stack))),
                            Some(Top(st.operand_stack)))),
                FALSE)

\* variant of Reduce that never attaches the left operand to the new node
ReduceOneChild(st) ==
    IF Len(st.operand_stack) < 2
    THEN [st EXCEPT !.raised = TRUE]
    ELSE Stacks(Pop(st.operator_stack),
                Append(Pop(Pop(st.operand_stack)),
                       Node(Top(st.operator_stack), None, Some(Top(st.operand_stack)))),
                FALSE)

\* pop right, pop the operator, pop left, push Node(operator, left, right);
\* callers guarantee a non-empty operator stack, so only an operand pop can raise
Reduce(st) ==
    IF Len(st.operand_stack) < 2
    THEN [st EXCEPT !.raised = TRUE]
    ELSE LET right == Top(st.operand_stack)
             operator == Top(st.operator_stack)
             left == Top(Pop(st.operand_stack))
         IN  Stacks(Pop(st.operator_stack),
                    Append(Pop(Pop(st.operand_stack)),
                           Node(operator, Some(left), Some(right))),
                    FALSE)

\* variant of PrecedenceCase with the two operators swapped
PrecedenceCaseSwapped(token, ops) ==
    token = AND /\ Len(ops) > 0 /\ Top(ops) = OR

PrecedenceCase(token, ops) ==
    token = OR /\ Len(ops) > 0 /\ Top(ops) = AND

RECURSIVE ReduceToParen(_)
ReduceToParen(st) ==
    IF ~st.raised /\ Len(st.operator_stack) > 0 /\ Top(st.operator_stack) # LPAREN
    THEN ReduceToParen(Reduce(st))
    ELSE st

\* variant of PopParen that skips the pop when the operator stack is empty
PopParenLenient(st) ==
    IF st.raised THEN st
    ELSE IF Len(st.operator_stack) = 0 THEN st
    ELSE [st EXCEPT !.operator_stack = Pop(@)]

\* variant of PopParen that leaves the "(" on the operator stack
PopParenKeep(st) == st

PopParen(st) ==
    IF st.raised \/ Len(st.operator_stack) = 0
    THEN [st EXCEPT !.raised = TRUE]
    ELSE [st EXCEPT !.operator_stack = Pop(@)]

\* variant of EmptyStack that reduces once instead of until the stack is empty
EmptyStackOnce(st) ==
    IF ~st.raised /\ Len(st.operator_stack) > 0 THEN Reduce(st) ELSE st

RECURSIVE EmptyStack(_)
EmptyStack(st) ==
    IF ~st.raised /\ Len(st.operator_stack) > 0
    THEN EmptyStack(Reduce(st))
    ELSE st

\* the outcome of one step of the call: the stacks, or the IndexError
Continue(st) ==
    IF st.raised
    THEN /\ pc' = "raised"
         /\ raisedAt' = pos
         /\ UNCHANGED <<pos, operator_stack, operand_stack>>
    ELSE /\ pc' = "loop"
         /\ pos' = pos + 1
         /\ operator_stack' = st.operator_stack
         /\ operand_stack' = st.operand_stack
         /\ UNCHANGED raisedAt

Current == Stacks(operator_stack, operand_stack, FALSE)

InLoop == pc = "loop" /\ pos <= Len(tokens)

PushOperand ==
    /\ InLoop
    /\ isinstance_tuple(tokens[pos])
    /\ Continue([Current EXCEPT
                   !.operand_stack = Append(@, Node(tokens[pos], None, None))])
    /\ UNCHANGED <<tokens, root, fes, result, firstFes, firstResult, interleaved>>

ReducePrecedence ==
    /\ InLoop
    /\ ~isinstance_tuple(tokens[pos])
    /\ PrecedenceCase(tokens[pos], operator_stack)
    /\ LET st == Reduce(Current)
       IN  Continue(IF st.raised THEN st
                    ELSE [st EXCEPT !.operator_stack = Append(@, tokens[pos])])
    /\ UNCHANGED <<tokens, root, fes, result, firstFes, firstResult, interleaved>>

CloseParen ==
    /\ InLoop
    /\ ~isinstance_tuple(tokens[pos])
    /\ ~PrecedenceCase(tokens[pos], operator_stack)
    /\ tokens[pos] = RPAREN
    /\ Continue(PopParen(ReduceToParen(Current)))
    /\ UNCHANGED <<tokens, root, fes, result, firstFes, firstResult, interleaved>>

PushOperator ==
    /\ InLoop
    /\ ~isinstance_tuple(tokens[pos])
    /\ ~PrecedenceCase(tokens[pos], operator_stack)
    /\ tokens[pos] # RPAREN
    /\ Continue([Current EXCEPT !.operator_stack = Append(@, tokens[pos])])
    /\ UNCHANGED <<tokens, root, fes, result, firstFes, firstResult, interleaved>>

\* lines 95-109: empty the operator stack, then return the popped operand as root
Return ==
    /\ pc = "loop"
    /\ pos > Len(tokens)
    /\ LET st == EmptyStack(Current)
       IN  IF st.raised \/ Len(st.operand_stack) = 0
           THEN /\ pc' = "raised"
                /\ raisedAt' = pos
                /\ UNCHANGED <<operator_stack, operand_stack, root>>
           ELSE /\ pc' = "returned"
                /\ root' = Some(Top(st.operand_stack))
                /\ operator_stack' = st.operator_stack
                /\ operand_stack' = Pop(st.operand_stack)
                /\ UNCHANGED raisedAt
    /\ UNCHANGED <<tokens, pos, fes, result, firstFes, firstResult, interleaved>>

----------------------------------------------------------------------------
(* Tree.evaluate *)

ProcessKeys == {AND, OR}

process(operator, x, y) == IF operator = AND THEN x /\ y ELSE x \/ y

Outcome(raised, val, visited) ==
    [raised |-> raised, val |-> val, visited |-> visited]

\* variant of evaluate in which "and" and "or" skip the right subtree when the
\* left result decides the value
RECURSIVE evaluate_short_circuit(_, _)
evaluate_short_circuit(event, node) ==
    IF leaf_check(node)
    THEN Outcome(FALSE, eval_to_bool(node.data, event), <<node.data>>)
    ELSE IF node.left = None \/ node.right = None
    THEN Outcome(TRUE, FALSE, <<>>)
    ELSE LET x == evaluate_short_circuit(event, node.left[1])
         IN  IF x.raised THEN x
             ELSE IF node.data = AND /\ ~x.val THEN x
             ELSE IF node.data = OR /\ x.val THEN x
             ELSE LET y == evaluate_short_circuit(event, node.right[1])
                  IN  IF y.raised
                      THEN Outcome(TRUE, FALSE, x.visited \o y.visited)
                      ELSE IF node.data \in ProcessKeys
                      THEN Outcome(FALSE, process(node.data, x.val, y.val),
                                   x.visited \o y.visited)
                      ELSE Outcome(TRUE, FALSE, x.visited \o y.visited)

\* evaluate(fes, node) for a node that is present; visited lists the operands of
\* the leaves given to eval_to_bool, in call order.  raised: the call ended in
\* an exception (a KeyError of process, or the unbounded recursion that
\* "node or self.root" starts on an absent child).
RECURSIVE evaluate(_, _)
evaluate(event, node) ==
    IF leaf_check(node)
    THEN Outcome(FALSE, eval_to_bool(node.data, event), <<node.data>>)
    ELSE IF node.left = None \/ node.right = None
    THEN Outcome(TRUE, FALSE, <<>>)
    ELSE LET x == evaluate(event, node.left[1])
         IN  IF x.raised THEN x
             ELSE LET y == evaluate(event, node.right[1])
                  IN  IF y.raised
                      THEN Outcome(TRUE, FALSE, x.visited \o y.visited)
                      ELSE IF node.data \in ProcessKeys
                      THEN Outcome(FALSE, process(node.data, x.val, y.val),
                                   x.visited \o y.visited)
                      ELSE Outcome(TRUE, FALSE, x.visited \o y.visited)

RECURSIVE LastVisited(_)
LastVisited(node) ==
    IF node.right = None THEN node ELSE LastVisited(node.right[1])

\* variant of Evaluate in which line 118 rebinds self.root instead of the local
\* node, so that the call leaves the last node it visited as the root
EvaluateRebindingRoot ==
    /\ pc = "returned"
    /\ \E event \in Events :
          LET r == evaluate(event, root[1])
          IN  /\ fes' = Some(event)
              /\ result' = Some(r)
              /\ IF firstFes = None
                 THEN firstFes' = Some(event) /\ firstResult' = Some(r)
                 ELSE UNCHANGED <<firstFes, firstResult>>
              /\ interleaved' = (interleaved \/ (firstFes # None /\ firstFes # Some(event)))
    /\ root' = Some(LastVisited(root[1]))
    /\ UNCHANGED <<tokens, pos, operator_stack, operand_stack, pc, raisedAt>>

\* one call tree.evaluate(event) on the returned tree.  History: firstFes and
\* firstResult keep the event and the outcome of the first call made on this
\* tree, interleaved whether a call on another event has followed it.
Evaluate ==
    /\ pc = "returned"
    /\ \E event \in Events :
          LET r == evaluate(event, root[1])
          IN  /\ fes' = Some(event)
              /\ result' = Some(r)
              /\ IF firstFes = None
                 THEN firstFes' = Some(event) /\ firstResult' = Some(r)
                 ELSE UNCHANGED <<firstFes, firstResult>>
              /\ interleaved' = (interleaved \/ (firstFes # None /\ firstFes # Some(event)))
    /\ UNCHANGED <<tokens, pos, operator_stack, operand_stack, pc, root, raisedAt>>

----------------------------------------------------------------------------
(* Inputs *)

AllSeqs == UNION {[1..n -> Tokens] : n \in 0..MaxLen}

BinaryOps == {AND, OR}

\* the syntactically valid infix expressions of exactly n tokens
Exprs[n \in 0..MaxValidLen] ==
    IF n = 0 THEN {}
    ELSE IF n = 1 THEN {<<a>> : a \in Operands}
    ELSE {<<LPAREN>> \o e \o <<RPAREN>> : e \in Exprs[n - 2]}
         \cup UNION { {l \o <<o>> \o r : l \in Exprs[k], r \in Exprs[n - 1 - k]}
                      : k \in 1..(n - 2), o \in BinaryOps }

ValidSeqs == UNION {Exprs[n] : n \in 0..MaxValidLen}

\* ( a or b ) and ( c or d ), the shape of the sample rule
GroupedSeqs ==
    { <<LPAREN, a, OR, b, RPAREN, AND, LPAREN, c, OR, d, RPAREN>> :
        a \in Operands, b \in Operands, c \in Operands, d \in Operands }

Inputs == AllSeqs \cup ValidSeqs \cup GroupedSeqs

Init ==
    /\ tokens \in Inputs
    /\ pos = 1
    /\ operator_stack = <<>>
    /\ operand_stack = <<>>
    /\ pc = "loop"
    /\ root = None
    /\ raisedAt = 0
    /\ fes = None
    /\ result = None
    /\ firstFes = None
    /\ firstResult = None
    /\ interleaved = FALSE

Next ==
    \/ PushOperand
    \/ ReducePrecedence
    \/ CloseParen
    \/ PushOperator
    \/ Return
    \/ Evaluate

Spec == Init /\ [][Next]_vars

----------------------------------------------------------------------------
(* Vocabulary of the properties *)

Returned == pc = "returned"

Raised == pc = "raised"

Finished == Returned \/ Raised

Leaf(operand) == Node(operand, None, None)

Inner(operator, left, right) == Node(operator, Some(left), Some(right))

IsOperand(token) == Len(token) = 2

IsOperator(token) == token \in {AND, OR}

Count(s, P(_)) == Cardinality({k \in 1..Len(s) : P(s[k])})

IsOpen(token) == token = LPAREN

IsClose(token) == token = RPAREN

\* nesting depth after the first k tokens of s
Depth(s, k) ==
    Cardinality({j \in 1..k : s[j] = LPAREN}) - Cardinality({j \in 1..k : s[j] = RPAREN})

Balanced(s) ==
    /\ \A k \in 1..Len(s) : Depth(s, k) >= 0
    /\ Depth(s, Len(s)) = 0

\* a syntactically valid infix expression: balanced parentheses, and operands and
\* operators alternating around them
WellFormed(s) ==
    /\ Len(s) >= 1
    /\ Balanced(s)
    /\ IsOperand(s[1]) \/ s[1] = LPAREN
    /\ IsOperand(s[Len(s)]) \/ s[Len(s)] = RPAREN
    /\ \A k \in 1..(Len(s) - 1) :
          IF IsOperand(s[k]) \/ s[k] = RPAREN
          THEN IsOperator(s[k + 1]) \/ s[k + 1] = RPAREN
          ELSE IsOperand(s[k + 1]) \/ s[k + 1] = LPAREN

\* the equality predicate an operand stands for
Holds(operand, event) ==
    \E k \in DOMAIN event : k = operand[1] /\ event[k] = operand[2]

TopLevel(s, symbol) == {k \in 1..Len(s) : s[k] = symbol /\ Depth(s, k) = 0}

Last(S) == CHOOSE k \in S : \A j \in S : j <= k

\* the conventional reading of a well-formed expression: parentheses first, then
\* "and", then "or"
RECURSIVE Conventional(_, _)
Conventional(s, event) ==
    IF TopLevel(s, OR) # {}
    THEN LET k == Last(TopLevel(s, OR))
         IN  Conventional(SubSeq(s, 1, k - 1), event)
                \/ Conventional(SubSeq(s, k + 1, Len(s)), event)
    ELSE IF TopLevel(s, AND) # {}
    THEN LET k == Last(TopLevel(s, AND))
         IN  Conventional(SubSeq(s, 1, k - 1), event)
                /\ Conventional(SubSeq(s, k + 1, Len(s)), event)
    ELSE IF s[1] = LPAREN
    THEN Conventional(SubSeq(s, 2, Len(s) - 1), event)
    ELSE Holds(s[1], event)

\* every event over the fields and values of the sample rule, and main()'s events
FieldValues ==
    [f \in {"evt.type", "evt.arg.flags", "fd.filename"} |->
        IF f = "evt.type" THEN {"blah", "hello"}
        ELSE IF f = "evt.arg.flags" THEN {"O_APPEND", "O_TRUNC"}
        ELSE {".bashrc"}]

EventUniverse ==
    Events \cup
    UNION { {e \in [S -> {"blah", "hello", "O_APPEND", "O_TRUNC", ".bashrc"}] :
                \A f \in S : e[f] \in FieldValues[f]}
            : S \in SUBSET (DOMAIN FieldValues) }

\* the nodes of the tree under node, node included
RECURSIVE Nodes(_)
Nodes(node) ==
    {node}
    \cup (IF node.left = None THEN {} ELSE Nodes(node.left[1]))
    \cup (IF node.right = None THEN {} ELSE Nodes(node.right[1]))

\* the operands of the leaves under node, left to right
RECURSIVE Fringe(_)
Fringe(node) ==
    IF leaf_check(node) THEN <<node.data>>
    ELSE (IF node.left = None THEN <<>> ELSE Fringe(node.left[1]))
         \o (IF node.right = None THEN <<>> ELSE Fringe(node.right[1]))

\* how many nodes under node (node included) are not leaves and carry data d
RECURSIVE InnerCount(_, _)
InnerCount(node, d) ==
    IF leaf_check(node) THEN 0
    ELSE (IF node.data = d THEN 1 ELSE 0)
         + (IF node.left = None THEN 0 ELSE InnerCount(node.left[1], d))
         + (IF node.right = None THEN 0 ELSE InnerCount(node.right[1], d))

RECURSIVE Size(_)
Size(node) ==
    1 + (IF node.left = None THEN 0 ELSE Size(node.left[1]))
      + (IF node.right = None THEN 0 ELSE Size(node.right[1]))

OperandsOf(s) == SelectSeq(s, IsOperand)

----------------------------------------------------------------------------
(* Properties *)

TypeBlah == <<"evt.type", "blah">>
FlagsAppend == <<"evt.arg.flags", "O_APPEND">>
FlagsTrunc == <<"evt.arg.flags", "O_TRUNC">>
FileBashrc == <<"fd.filename", ".bashrc">>

TruncBashrcEvent ==
    [k \in {"evt.arg.flags", "fd.filename"} |->
        IF k = "evt.arg.flags" THEN "O_TRUNC" ELSE ".bashrc"]

BlahTruncEvent ==
    [k \in {"evt.type", "evt.arg.flags"} |->
        IF k = "evt.type" THEN "blah" ELSE "O_TRUNC"]

EmptyEvent == [k \in {} |-> ""]

\* C1: for every well-formed token sequence the returned tree evaluates, on every
\* event, without an exception and to the value of the conventional reading, in
\* which "and" binds tighter than "or" inside one parenthesis level.
C1_ConventionalPrecedence ==
    (Returned /\ WellFormed(tokens)) =>
        \A event \in EventUniverse :
            LET r == evaluate(event, root[1])
            IN  ~r.raised /\ r.val = Conventional(tokens, event)

IsAndOrShape(s) ==
    /\ Len(s) = 5
    /\ IsOperand(s[1]) /\ s[2] = AND /\ IsOperand(s[3]) /\ s[4] = OR /\ IsOperand(s[5])

\* C2: for [A, "and", B, "or", C] the call returns the tree or(and(A, B), C), which
\* evaluates on every event to (A and B) or C.
C2_AndThenOr ==
    (Finished /\ IsAndOrShape(tokens)) =>
        /\ Returned
        /\ root = Some(Inner(OR, Inner(AND, Leaf(tokens[1]), Leaf(tokens[3])),
                             Leaf(tokens[5])))
        /\ \A event \in EventUniverse :
              LET r == evaluate(event, root[1])
              IN  /\ ~r.raised
                  /\ r.val = ((Holds(tokens[1], event) /\ Holds(tokens[3], event))
                                \/ Holds(tokens[5], event))

\* a call on [A, "and", B, "or", C] has returned and the tree was evaluated to true
\* on an event where A and (B or C) is false
C2_Witness ==
    /\ Returned
    /\ tokens = <<TypeBlah, AND, FlagsAppend, OR, FileBashrc>>
    /\ fes = Some(TruncBashrcEvent)
    /\ result # None
    /\ result[1].val

Unbalanced(s) == ~Balanced(s)

EmptyParens(s) == \E k \in 1..(Len(s) - 1) : s[k] = LPAREN /\ s[k + 1] = RPAREN

AdjacentOperators(s) ==
    \E k \in 1..(Len(s) - 1) : IsOperator(s[k]) /\ IsOperator(s[k + 1])

TrailingOperator(s) == Len(s) >= 1 /\ IsOperator(s[Len(s)])

\* the malformed inputs the claim lists
ListedMalformed(s) ==
    Unbalanced(s) \/ EmptyParens(s) \/ AdjacentOperators(s) \/ TrailingOperator(s)

\* C3 as stated: on every malformed token sequence (unbalanced parentheses, an
\* empty parenthesis pair, two adjacent operators, a trailing operator) the call
\* ends with the stack-underflow error and returns no tree.
C3_MalformedAlwaysRaises ==
    (Finished /\ ListedMalformed(tokens)) => (Raised /\ root = None)

\* the reductions a call must make: one per "and"/"or" and one per "(" that no
\* ")" closes
Reductions(s) == Count(s, IsOperator) + Count(s, IsOpen) - Count(s, IsClose)

\* C3 as amended: when the "and"/"or" tokens plus the "(" tokens no ")" closes
\* are at least as many as the operands, the call ends with the stack-underflow
\* error and returns no tree.
C3_UnderflowRaises ==
    (Finished /\ Reductions(tokens) >= Count(tokens, IsOperand)) =>
        (Raised /\ root = None)

\* a call on an operand followed by a trailing operator has raised after the loop
C3_Witness ==
    /\ Raised
    /\ tokens = <<TypeBlah, AND>>
    /\ raisedAt = 3
    /\ root = None

\* the position of the first ")" that no earlier "(" matches, 0 when there is none
FirstUnmatchedClose(s) ==
    IF \E k \in 1..Len(s) : Depth(s, k) < 0
    THEN CHOOSE k \in 1..Len(s) : Depth(s, k) < 0 /\ \A j \in 1..(k - 1) : Depth(s, j) >= 0
    ELSE 0

C5_LeavesAndInternalNodes ==
    (Finished /\ WellFormed(tokens)) =>
        /\ Returned
        /\ Fringe(root[1]) = OperandsOf(tokens)
        /\ InnerCount(root[1], AND) = Cardinality({k \in 1..Len(tokens) : tokens[k] = AND})
        /\ InnerCount(root[1], OR) = Cardinality({k \in 1..Len(tokens) : tokens[k] = OR})
        /\ Size(root[1]) = Count(tokens, IsOperand) + Count(tokens, IsOperator)
        /\ Len(tokens) = 1 => root = Some(Leaf(tokens[1]))

\* a call on a parenthesized seven-token expression has returned a tree of three
\* leaves and two internal nodes
C5_Witness ==
    /\ Returned
    /\ tokens = <<TypeBlah, AND, LPAREN, FlagsTrunc, OR, FileBashrc, RPAREN>>
    /\ Size(root[1]) = 5
    /\ Len(Fringe(root[1])) = 3

IsGroupedShape(s) ==
    /\ Len(s) = 11
    /\ s[1] = LPAREN /\ IsOperand(s[2]) /\ s[3] = OR /\ IsOperand(s[4]) /\ s[5] = RPAREN
    /\ s[6] = AND
    /\ s[7] = LPAREN /\ IsOperand(s[8]) /\ s[9] = OR /\ IsOperand(s[10]) /\ s[11] = RPAREN

\* C6: for ["(", A, "or", B, ")", "and", "(", C, "or", D, ")"] the call returns
\* and(or(A, B), or(C, D)), no node carries a parenthesis, and the tree evaluates
\* on every event to (A or B) and (C or D); the sample rule is false on
\* {evt.arg.flags: O_TRUNC, fd.filename: .bashrc} and true on
\* {evt.type: blah, evt.arg.flags: O_TRUNC}.
C6_ParenthesesGroup ==
    (Finished /\ IsGroupedShape(tokens)) =>
        /\ Returned
        /\ root = Some(Inner(AND, Inner(OR, Leaf(tokens[2]), Leaf(tokens[4])),
                                  Inner(OR, Leaf(tokens[8]), Leaf(tokens[10]))))
        /\ \A n \in Nodes(root[1]) : n.data \notin {LPAREN, RPAREN}
        /\ \A event \in EventUniverse :
              LET r == evaluate(event, root[1])
              IN  /\ ~r.raised
                  /\ r.val = ((Holds(tokens[2], event) \/ Holds(tokens[4], event))
                                /\ (Holds(tokens[8], event) \/ Holds(tokens[10], event)))
        /\ tokens = SampleTokens =>
              /\ ~evaluate(TruncBashrcEvent, root[1]).val
              /\ evaluate(BlahTruncEvent, root[1]).val
        /\ (tokens = SampleTokens /\ fes = Some(TruncBashrcEvent)) => ~result[1].val
        /\ (tokens = SampleTokens /\ fes = Some(BlahTruncEvent)) => result[1].val

\* the sample rule was built and evaluated, first on the event it rejects and
\* then on the event it accepts
C6_Witness ==
    /\ Returned
    /\ tokens = SampleTokens
    /\ firstFes = Some(TruncBashrcEvent)
    /\ ~firstResult[1].val
    /\ fes = Some(BlahTruncEvent)
    /\ result[1].val

\* C7: evaluating a leaf (field, value) on an event gives true exactly when the
\* event has the key field with the value value; when the key is absent the
\* result is false, and no exception is raised.
C7_LeafSemantics ==
    (Returned /\ leaf_check(root[1]) /\ result # None) =>
        LET field == root[1].data[1]
            value == root[1].data[2]
            event == fes[1]
        IN  /\ ~result[1].raised
            /\ result[1].val <=> (field \in DOMAIN event /\ event[field] = value)
            /\ field \notin DOMAIN event => ~result[1].val

\* a leaf was evaluated to true on an event that has its field and value, and
\* then to false on the empty event
C7_Witness ==
    /\ Returned
    /\ root = Some(Leaf(TypeBlah))
    /\ firstFes = Some(BlahTruncEvent)
    /\ firstResult[1].val
    /\ fes = Some(EmptyEvent)
    /\ ~result[1].val

\* C8: in the tree returned for a well-formed token sequence every node is a leaf
\* carrying an operand, or carries "and" or "or" and has both children; so no
\* evaluation of it raises for an unknown operator.
C8_NodeShapes ==
    (Returned /\ WellFormed(tokens)) =>
        /\ \A n \in Nodes(root[1]) :
              \/ n.left = None /\ n.right = None /\ IsOperand(n.data)
              \/ n.left # None /\ n.right # None /\ n.data \in {AND, OR}
        /\ result # None => ~result[1].raised

\* a tree with nested internal nodes was returned and evaluated
C8_Witness ==
    /\ Returned
    /\ tokens = <<LPAREN, TypeBlah, OR, FlagsTrunc, RPAREN, AND, FileBashrc>>
    /\ Size(root[1]) = 5
    /\ result # None

\* C9: a call of evaluate changes neither the tree nor the tokens it was built
\* from, and a call on the event of the first call returns what the first call
\* returned, whatever was evaluated in between.
C9_EvaluateIsPure ==
    [][(Returned /\ Returned') =>
          /\ root' = root
          /\ tokens' = tokens
          /\ (fes' = firstFes') => (result' = firstResult')]_vars

\* the tree was evaluated on one event, then on another, then on the first again
C9_Witness ==
    /\ Returned
    /\ tokens = <<TypeBlah, AND, FlagsTrunc, OR, FileBashrc>>
    /\ firstFes = Some(BlahTruncEvent)
    /\ interleaved
    /\ fes = Some(BlahTruncEvent)
    /\ result = firstResult
    /\ result[1].val

\* C10: one call of evaluate gives every leaf to eval_to_bool exactly once, left
\* subtree before right subtree and whatever the left result is, and the value of
\* an internal node is the and/or of the values of its two children.
C10_EagerEvaluation ==
    (Returned /\ result # None /\ ~result[1].raised) =>
        /\ result[1].visited = Fringe(root[1])
        /\ \A n \in Nodes(root[1]) :
              ~leaf_check(n) =>
                 LET x == evaluate(fes[1], n.left[1])
                     y == evaluate(fes[1], n.right[1])
                     r == evaluate(fes[1], n)
                 IN  /\ r.visited = x.visited \o y.visited
                     /\ n.data = AND => (r.val <=> (x.val /\ y.val))
                     /\ n.data = OR => (r.val <=> (x.val \/ y.val))

\* an "and" whose left operand is false was evaluated, and its right operand was
\* still visited
C10_Witness ==
    /\ Returned
    /\ tokens = <<TypeBlah, AND, FlagsTrunc>>
    /\ fes = Some(TruncBashrcEvent)
    /\ result # None
    /\ ~result[1].val
    /\ result[1].visited = <<TypeBlah, FlagsTrunc>>

====
